---- MODULE Spec2Model ----
(***************************************************************************)
(* Model of nano_pdf/pdf_utils.py: the rotation normaliser, the aspect-fit *)
(* compositor, the visual-footprint resolver and the three document        *)
(* reconstruction operations (replace, batch replace, insert).             *)
(***************************************************************************)
EXTENDS Integers, Sequences, FiniteSets, TLC

VARIABLES
    \* the composition of one page
    original_page,  \* the page handed to _build_replacement_page as original
    new_page,       \* the replacement (source) page
    target,         \* <<target_width, target_height>> handed to _fit_page_with_padding
    result,         \* the page returned
    fit_pc,         \* "ready" before the call, "fitted" or "built" after it
    \* the files
    original,       \* the document at original_pdf_path
    output,         \* the file at output_pdf_path
    writes,         \* how many times the output file was opened and written
    \* one call of replace_page_in_pdf, batch_replace_pages or insert_page
    op,             \* "none", "replace", "batch", "insert"
    pc,             \* "idle", "open", "prepare", "walk", "done", "raised"
    page_number,
    after_page,
    new_page_pdf_path,
    replacements,   \* the dict, as the sequence of its <<key, path>> items
    i,              \* the number of original pages walked
    writer,         \* the pages added to the PdfWriter so far
    prepared_new_page,
    error           \* the exception that ended the call, "" when none

fit_vars == <<original_page, new_page, target, result, fit_pc>>

file_vars == <<original, output, writes>>

call_vars == <<op, pc, page_number, after_page, new_page_pdf_path, replacements,
               i, writer, prepared_new_page, error>>

vars == <<fit_vars, file_vars, call_vars>>

----------------------------------------------------------------------------
(* Binary floating point.  Python's float is IEEE-754 binary64: a          *)
(* significand of 53 bits, every operation rounded to nearest, ties to     *)
(* even.  The model keeps the rounding rule and shortens the significand   *)
(* to Precision bits.  A float is [m, e], of value m * 2^e, with           *)
(* 2^(Precision-1) <= |m| < 2^Precision, or m = 0.                         *)

Precision == 3

RECURSIVE Pow2(_)
Pow2(n) == IF n <= 0 THEN 1 ELSE 2 * Pow2(n - 1)

RECURSIVE BitLen(_)
BitLen(n) == IF n = 0 THEN 0 ELSE 1 + BitLen(n \div 2)

Zero == [m |-> 0, e |-> 0]

\* n * 2^e, n >= 0, rounded to Precision bits, to nearest, ties to even
RoundNat(n, e) ==
    LET k == BitLen(n) - Precision
    IN  IF n = 0 THEN Zero
        ELSE IF k <= 0 THEN [m |-> n * Pow2(-k), e |-> e + k]
        ELSE LET q    == n \div Pow2(k)
                 r    == n % Pow2(k)
                 half == Pow2(k - 1)
                 up   == r > half \/ (r = half /\ q % 2 = 1)
                 q2   == IF up THEN q + 1 ELSE q
             IN  IF q2 = Pow2(Precision)
                 THEN [m |-> Pow2(Precision - 1), e |-> e + k + 1]
                 ELSE [m |-> q2, e |-> e + k]

Round(n, e) ==
    IF n < 0 THEN [m |-> -(RoundNat(-n, e).m), e |-> RoundNat(-n, e).e]
    ELSE RoundNat(n, e)

\* float(n) of an integer n
FromInt(n) == Round(n, 0)

One == FromInt(1)

MinExp(a, b) == IF a.e <= b.e THEN a.e ELSE b.e

\* a and b as integers over the common unit 2^MinExp(a, b)
Aligned(a, b) == a.m * Pow2(a.e - MinExp(a, b))

FLe(a, b) == Aligned(a, b) <= Aligned(b, a)

FLt(a, b) == Aligned(a, b) < Aligned(b, a)

\* a * b
FMul(a, b) == Round(a.m * b.m, a.e + b.e)

\* a / b, b > 0: the quotient to Precision + 2 bits and a sticky bit, then rounded
FDiv(a, b) ==
    LET n   == (IF a.m < 0 THEN -a.m ELSE a.m) * Pow2(Precision + 2)
        q   == n \div b.m
        st  == IF n % b.m = 0 THEN 0 ELSE 1
        mag == 2 * q + st
    IN  Round(IF a.m < 0 THEN -mag ELSE mag, a.e - b.e - Precision - 3)

\* a - b
FSub(a, b) == Round(Aligned(a, b) - Aligned(b, a), MinExp(a, b))

\* a / 2 (exact)
FHalf(a) == IF a.m = 0 THEN Zero ELSE [m |-> a.m, e |-> a.e - 1]

\* Python's min(a, b): b when b < a, else a
FMin(a, b) == IF FLt(b, a) THEN b ELSE a

FMax(a, b) == IF FLt(a, b) THEN b ELSE a

----------------------------------------------------------------------------
(* Pages.  A page has a declared box, a rotation attribute and content.    *)
(* The rotation attribute is an integer, or absent, or unreadable (not a   *)
(* number).  Content names the page it was drawn from and the transform    *)
(* applied to it.                                                          *)

IntRot(n) == [tag |-> "int", val |-> n]
NoRot     == [tag |-> "absent", val |-> 0]
BadRot    == [tag |-> "bad", val |-> 0]

RawContent(doc, idx) ==
    [doc |-> doc, idx |-> idx, scale |-> One, tx |-> Zero, ty |-> Zero]

Transformed(content, scale, tx, ty) ==
    [doc |-> content.doc, idx |-> content.idx, scale |-> scale, tx |-> tx, ty |-> ty]

Page(w, h, rot, content) ==
    [width |-> w, height |-> h, rotation |-> rot, content |-> content]

NoPage == Page(Zero, Zero, NoRot, RawContent("none", 0))

\* PageObject.create_blank_page(width, height) with source_page merged onto it
Canvas(w, h, content) == Page(w, h, NoRot, content)

\* _page_rotation: the attribute read raises on a non-number, the /Rotate
\* lookup then yields the same non-number, and int() of it raises again
page_rotation_nomod(page) ==
    IF page.rotation.tag = "int" THEN page.rotation.val ELSE 0

page_rotation(page) ==
    IF page.rotation.tag = "int" THEN page.rotation.val % 360 ELSE 0

fit_scale_max(src_w, src_h, target_width, target_height) ==
    FMax(FDiv(target_width, src_w), FDiv(target_height, src_h))

\* scale = min(target_width / src_w, target_height / src_h)
fit_scale(src_w, src_h, target_width, target_height) ==
    FMin(FDiv(target_width, src_w), FDiv(target_height, src_h))

fit_page_with_padding(source_page, target_width, target_height) ==
    LET src_w == source_page.width
        src_h == source_page.height
    IN  IF FLe(src_w, Zero) \/ FLe(src_h, Zero)
        THEN Canvas(target_width, target_height, source_page.content)
        ELSE LET scale    == fit_scale(src_w, src_h, target_width, target_height)
                 scaled_w == FMul(src_w, scale)
                 scaled_h == FMul(src_h, scale)
                 tx       == FHalf(FSub(target_width, scaled_w))
                 ty       == FHalf(FSub(target_height, scaled_h))
             IN  Canvas(target_width, target_height,
                        Transformed(source_page.content, scale, tx, ty))

\* the visual footprint of a declared box under rotation rot
visual_size(target_w, target_h, rot) ==
    IF rot \in {90, 270} THEN <<target_h, target_w>> ELSE <<target_w, target_h>>

build_replacement_page(orig, new) ==
    LET target_w == orig.width
        target_h == orig.height
        rot      == page_rotation(orig)
        visual   == visual_size(target_w, target_h, rot)
    IN  fit_page_with_padding(new, visual[1], visual[2])

----------------------------------------------------------------------------
(* Documents and files.                                                    *)

MaxPages == 3

Portrait(doc, idx) == Page(FromInt(3), FromInt(4), IntRot(0), RawContent(doc, idx))
Turned(doc, idx)   == Page(FromInt(3), FromInt(4), IntRot(90), RawContent(doc, idx))
Wide(doc, idx)     == Page(FromInt(5), FromInt(2), NoRot, RawContent(doc, idx))

Kinds == {"portrait", "turned", "wide"}

PageOfKind(kind, doc, idx) ==
    CASE kind = "portrait" -> Portrait(doc, idx)
      [] kind = "turned"   -> Turned(doc, idx)
      [] kind = "wide"     -> Wide(doc, idx)

\* a file is readable as a PDF or not; a readable one holds pages
Readable(pages) == [readable |-> TRUE, pages |-> pages]
Unreadable      == [readable |-> FALSE, pages |-> <<>>]

Originals ==
    {Unreadable} \cup
    UNION {{Readable([k \in 1..n |-> PageOfKind(kinds[k], "orig", k)]) :
               kinds \in [1..n -> Kinds]} : n \in 0..MaxPages}

\* the files a call may name as the source of a new page: "A" holds one
\* square page, "B" two pages, "E" is a PDF of no pages, "X" is no PDF
Paths == {"A", "B", "E", "X"}

File(path) ==
    CASE path = "A" -> Readable(<<Page(FromInt(4), FromInt(4), NoRot, RawContent("A", 1))>>)
      [] path = "B" -> Readable(<<Page(FromInt(2), FromInt(6), NoRot, RawContent("B", 1)),
                                  Page(FromInt(6), FromInt(2), NoRot, RawContent("B", 2))>>)
      [] path = "E" -> Readable(<<>>)
      [] path = "X" -> Unreadable

NoFile == [exists |-> FALSE, pages |-> <<>>]

Written(pages) == [exists |-> TRUE, pages |-> pages]

\* the page numbers a caller may pass, in range and out of range
PageNumbers == -1..(MaxPages + 1)

Items == {<<k, path>> : k \in 0..(MaxPages + 1), path \in Paths}

\* the dicts of at most two items, in either insertion order
Dicts == {<<>>} \cup {<<a>> : a \in Items}
            \cup {<<ab[1], ab[2]>> : ab \in {x \in Items \X Items : x[1][1] # x[2][1]}}

\* page_num in replacements
dict_contains(d, key) == \E j \in 1..Len(d) : d[j][1] = key

dict_get_first(d, key) == d[1][2]

\* replacements[page_num]
dict_get(d, key) == d[CHOOSE j \in 1..Len(d) : d[j][1] = key][2]

\* PdfReader(path).pages[0] handed to _build_replacement_page: the reader
\* raises on a file that is no PDF, pages[0] raises on a PDF of no pages
substitute_or_keep(original_page_, path) ==
    IF ~File(path).readable \/ Len(File(path).pages) = 0
    THEN [raised |-> "", page |-> original_page_]
    ELSE [raised |-> "",
          page |-> build_replacement_page(original_page_, File(path).pages[1])]

substitute(original_page_, path) ==
    IF ~File(path).readable
    THEN [raised |-> "PdfReadError", page |-> original_page_]
    ELSE IF Len(File(path).pages) = 0
    THEN [raised |-> "IndexError", page |-> original_page_]
    ELSE [raised |-> "",
          page |-> build_replacement_page(original_page_, File(path).pages[1])]

reference_page_last(pages) == pages[Len(pages)]

\* reference_page = reader.pages[0]
reference_page(pages) == pages[1]

insert_here_off_by_one(idx, after) == idx = after

\* if i + 1 == after_page, idx the 0-based index of the page just added
insert_here(idx, after) == idx + 1 = after

----------------------------------------------------------------------------
(* The calls.                                                              *)

FitIdle ==
    /\ original_page = NoPage
    /\ new_page = NoPage
    /\ target = <<Zero, Zero>>
    /\ result = NoPage
    /\ fit_pc = "unused"

CallIdle ==
    /\ op = "none"
    /\ pc = "idle"
    /\ page_number = 0
    /\ after_page = 0
    /\ new_page_pdf_path = ""
    /\ replacements = <<>>
    /\ i = 0
    /\ writer = <<>>
    /\ prepared_new_page = NoPage
    /\ error = ""

Init ==
    /\ FitIdle
    /\ original \in Originals
    /\ output = NoFile
    /\ writes = 0
    /\ CallIdle

Call(name) ==
    /\ pc = "idle"
    /\ op' = name
    /\ pc' = "open"
    /\ UNCHANGED <<i, writer, prepared_new_page, error, file_vars, fit_vars>>

CallBatch ==
    /\ Call("batch")
    /\ replacements' \in Dicts
    /\ UNCHANGED <<page_number, after_page, new_page_pdf_path>>

CallReplace ==
    /\ Call("replace")
    /\ page_number' \in PageNumbers
    /\ new_page_pdf_path' \in Paths
    /\ UNCHANGED <<after_page, replacements>>

CallInsert ==
    /\ Call("insert")
    /\ after_page' \in PageNumbers
    /\ new_page_pdf_path' \in Paths
    /\ UNCHANGED <<page_number, replacements>>

Raise(exc) ==
    /\ pc' = "raised"
    /\ error' = exc

\* reader = PdfReader(original_pdf_path); writer = PdfWriter()
Open ==
    /\ pc = "open"
    /\ IF original.readable
       THEN /\ pc' = IF op = "insert" THEN "prepare" ELSE "walk"
            /\ error' = error
       ELSE Raise("PdfReadError")
    /\ i' = 0
    /\ writer' = <<>>
    /\ UNCHANGED <<op, page_number, after_page, new_page_pdf_path, replacements,
                   prepared_new_page, file_vars, fit_vars>>

\* one turn of the loop of replace_page_in_pdf or batch_replace_pages: the page
\* at 0-based index i is substituted from path when hit, and copied otherwise
WalkStep(hit, path) ==
    LET sub == substitute(original.pages[i + 1], path)
    IN  /\ pc = "walk"
        /\ i < Len(original.pages)
        /\ IF hit
           THEN IF sub.raised # ""
                THEN Raise(sub.raised) /\ UNCHANGED <<i, writer>>
                ELSE /\ writer' = Append(writer, sub.page)
                     /\ i' = i + 1
                     /\ UNCHANGED <<pc, error>>
           ELSE /\ writer' = Append(writer, original.pages[i + 1])
                /\ i' = i + 1
                /\ UNCHANGED <<pc, error>>
        /\ UNCHANGED <<op, page_number, after_page, new_page_pdf_path, replacements,
                       prepared_new_page, file_vars, fit_vars>>

ReplaceStep ==
    /\ op = "replace"
    /\ WalkStep(i = page_number - 1, new_page_pdf_path)

BatchStep ==
    /\ op = "batch"
    /\ WalkStep(dict_contains(replacements, i + 1),
                IF dict_contains(replacements, i + 1)
                THEN dict_get(replacements, i + 1) ELSE "X")

\* insert_page up to its loop: the reference page, the new page, the prepared
\* page, and the prepared page added first when after_page == 0
InsertPrepare ==
    LET sub == substitute(reference_page(original.pages), new_page_pdf_path)
    IN  /\ op = "insert"
        /\ pc = "prepare"
        /\ IF Len(original.pages) = 0
           THEN Raise("IndexError") /\ UNCHANGED <<writer, prepared_new_page>>
           ELSE IF sub.raised # ""
           THEN Raise(sub.raised) /\ UNCHANGED <<writer, prepared_new_page>>
           ELSE /\ prepared_new_page' = sub.page
                /\ writer' = IF after_page = 0 THEN <<sub.page>> ELSE <<>>
                /\ pc' = "walk"
                /\ error' = error
        /\ UNCHANGED <<op, page_number, after_page, new_page_pdf_path, replacements,
                       i, file_vars, fit_vars>>

\* one turn of the loop of insert_page
InsertStep ==
    /\ op = "insert"
    /\ pc = "walk"
    /\ i < Len(original.pages)
    /\ writer' = IF insert_here(i, after_page)
                 THEN writer \o <<original.pages[i + 1], prepared_new_page>>
                 ELSE Append(writer, original.pages[i + 1])
    /\ i' = i + 1
    /\ UNCHANGED <<op, pc, page_number, after_page, new_page_pdf_path, replacements,
                   prepared_new_page, error, file_vars, fit_vars>>

\* with open(output_pdf_path, 'wb') as f: writer.write(f)
Write ==
    /\ pc = "walk"
    /\ i = Len(original.pages)
    /\ output' = Written(writer)
    /\ writes' = writes + 1
    /\ pc' = "done"
    /\ UNCHANGED <<original, op, page_number, after_page, new_page_pdf_path,
                   replacements, i, writer, prepared_new_page, error, fit_vars>>

Next ==
    \/ CallBatch
    \/ CallReplace
    \/ CallInsert
    \/ Open
    \/ ReplaceStep
    \/ BatchStep
    \/ InsertPrepare
    \/ InsertStep
    \/ Write

Spec == Init /\ [][Next]_vars

----------------------------------------------------------------------------
(* The composition of one page, on its own: the source page and the target *)
(* size, or the original page and the new page, drawn from bounded sets.   *)

MaxDim == 7
MaxBox == 4

FilesIdle ==
    /\ original = Readable(<<>>)
    /\ output = NoFile
    /\ writes = 0

SourcePages(dims) ==
    {Page(FromInt(w), FromInt(h), NoRot, RawContent("new", 1)) : w \in dims, h \in dims}

Rotations ==
    {IntRot(n) : n \in {-90, 0, 45, 90, 180, 270, 450, 630}} \cup {NoRot, BadRot}

FitInit ==
    /\ original_page = NoPage
    /\ new_page \in SourcePages(-1..MaxDim)
    /\ target \in {<<FromInt(w), FromInt(h)>> : w \in 1..MaxDim, h \in 1..MaxDim}
    /\ result = NoPage
    /\ fit_pc = "ready"
    /\ FilesIdle
    /\ CallIdle

\* _fit_page_with_padding(source_page, target_width, target_height)
Fit ==
    /\ fit_pc = "ready"
    /\ result' = fit_page_with_padding(new_page, target[1], target[2])
    /\ fit_pc' = "fitted"
    /\ UNCHANGED <<original_page, new_page, target, file_vars, call_vars>>

SpecFit == FitInit /\ [][Fit]_vars

BuildInit ==
    /\ original_page \in {Page(FromInt(w), FromInt(h), r, RawContent("orig", 1)) :
                             w \in 1..MaxBox, h \in 1..MaxBox, r \in Rotations}
    /\ new_page \in SourcePages(-1..MaxBox)
    /\ target = <<Zero, Zero>>
    /\ result = NoPage
    /\ fit_pc = "ready"
    /\ FilesIdle
    /\ CallIdle

\* _build_replacement_page(original_page, new_page)
Build ==
    /\ fit_pc = "ready"
    /\ result' = build_replacement_page(original_page, new_page)
    /\ fit_pc' = "built"
    /\ UNCHANGED <<original_page, new_page, target, file_vars, call_vars>>

SpecBuild == BuildInit /\ [][Build]_vars

----------------------------------------------------------------------------
(* Properties of the composition of one page.                              *)

Built == fit_pc = "built"

Fitted == fit_pc = "fitted"

WellFormedSource == FLt(Zero, new_page.width) /\ FLt(Zero, new_page.height)

\* the rotation attribute as an integer: 0 when absent or unreadable
RotationAttr(page) == IF page.rotation.tag = "int" THEN page.rotation.val ELSE 0

Quarter(page) == RotationAttr(page) % 360 \in {90, 270}

\* the declared box with the axes swapped under a rotation of 90 or 270
Footprint(page) ==
    IF Quarter(page) THEN <<page.height, page.width>> ELSE <<page.width, page.height>>

\* C8: the page _build_replacement_page returns is declared (h, w) when the
\* original's rotation attribute is 90 or 270 modulo 360, and (w, h) otherwise
\* (a missing or unreadable attribute counts as 0), whatever the size of the
\* replacement page, degenerate sizes included.
C8_DeclaredSizeIsVisualFootprint ==
    Built => <<result.width, result.height>> = Footprint(original_page)

\* a 3 x 4 original turned by -90 (270 modulo 360) and a replacement of width
\* 0: the canvas is 4 x 3
C8_Witness ==
    /\ Built
    /\ original_page.rotation = IntRot(-90)
    /\ original_page.width = FromInt(3) /\ original_page.height = FromInt(4)
    /\ new_page.width = FromInt(0)
    /\ result.width = FromInt(4) /\ result.height = FromInt(3)

\* the scaled size of the source, as the code computes it
ScaledW == FMul(new_page.width, result.content.scale)
ScaledH == FMul(new_page.height, result.content.scale)

\* C9 as stated: with s = min(W/w, H/h) the scaled source lies inside the
\* canvas and touches it on one axis, and both offsets are >= 0, one of them 0.
C9_ExactFitAndCentring ==
    (Fitted /\ WellFormedSource) =>
        /\ result.content.scale =
              FMin(FDiv(target[1], new_page.width), FDiv(target[2], new_page.height))
        /\ FLe(ScaledW, target[1]) /\ FLe(ScaledH, target[2])
        /\ (ScaledW = target[1] \/ ScaledH = target[2])
        /\ result.content.tx = FHalf(FSub(target[1], ScaledW))
        /\ result.content.ty = FHalf(FSub(target[2], ScaledH))
        /\ FLe(Zero, result.content.tx) /\ FLe(Zero, result.content.ty)
        /\ (result.content.tx = Zero \/ result.content.ty = Zero)

\* x <= t * (1 + u)^2, u = 2^-Precision the unit roundoff
AtMostRounded(x, t) ==
    Aligned(x, t) * Pow2(2 * Precision)
        <= Aligned(t, x) * (Pow2(Precision) + 1) * (Pow2(Precision) + 1)

\* x >= t * (1 - u)^2
AtLeastRounded(x, t) ==
    Aligned(x, t) * Pow2(2 * Precision)
        >= Aligned(t, x) * (Pow2(Precision) - 1) * (Pow2(Precision) - 1)

\* the offset o on an axis of length t is >= -t * (u + u^2 / 2)
OffsetAtLeastRounded(o, t) ==
    2 * Aligned(o, t) * Pow2(2 * Precision)
        >= -(Aligned(t, o) * (Pow2(Precision + 1) + 1))

\* |o| <= t * (u + u^2 / 2)
OffsetNearZero(o, t) ==
    /\ OffsetAtLeastRounded(o, t)
    /\ 2 * Aligned(o, t) * Pow2(2 * Precision)
        <= Aligned(t, o) * (Pow2(Precision + 1) + 1)

\* C9, amended: the scale is the minimum of the two rounded quotients; the
\* scaled source exceeds the canvas on neither axis by more than the rounding
\* of one division and one multiplication (a factor (1 + u)^2), comes within
\* that rounding of it on one axis, and the offsets are the halved differences,
\* >= 0 and one of them 0 up to the same rounding.
C9_FitAndCentringUpToRounding ==
    (Fitted /\ WellFormedSource) =>
        /\ result.content.scale =
              FMin(FDiv(target[1], new_page.width), FDiv(target[2], new_page.height))
        /\ AtMostRounded(ScaledW, target[1])
        /\ AtMostRounded(ScaledH, target[2])
        /\ (AtLeastRounded(ScaledW, target[1]) \/ AtLeastRounded(ScaledH, target[2]))
        /\ result.content.tx = FHalf(FSub(target[1], ScaledW))
        /\ result.content.ty = FHalf(FSub(target[2], ScaledH))
        /\ OffsetAtLeastRounded(result.content.tx, target[1])
        /\ OffsetAtLeastRounded(result.content.ty, target[2])
        /\ (OffsetNearZero(result.content.tx, target[1])
               \/ OffsetNearZero(result.content.ty, target[2]))

\* a 1 x 3 source on a 3 x 7 canvas: 7 / 3 rounds up and 3 times that
\* rounds up again, so the scaled height overshoots the canvas and ty < 0
C9_Witness ==
    /\ Fitted
    /\ new_page.width = FromInt(1) /\ new_page.height = FromInt(3)
    /\ target = <<FromInt(3), FromInt(7)>>
    /\ FLt(target[2], ScaledH)
    /\ FLt(result.content.ty, Zero)
    /\ FLt(Zero, result.content.tx)

----------------------------------------------------------------------------
(* Properties of the calls.                                                *)

N == Len(original.pages)

Done == pc = "done"

InRange(k) == k \in 1..N

\* the dict as the set of its items, the order they are held in forgotten
ItemSet == {replacements[j] : j \in 1..Len(replacements)}

Keys == {item[1] : item \in ItemSet}

\* the file at path holds no first page to take
NoFirstPage(path) == ~File(path).readable \/ Len(File(path).pages) = 0

\* the composed page for original page k and the file at path
Composed(k, path) == build_replacement_page(original.pages[k], File(path).pages[1])

\* C1: batch_replace_pages writes, position by position, the composed page of
\* original page k and the first page of M[k] where k is a key of M and
\* original page k itself elsewhere, in original order, whatever the order the
\* items of M are held in; with an empty M it writes the input sequence.
C1_BatchPositionByPosition ==
    (op = "batch" /\ Done) =>
        /\ Len(output.pages) = N
        /\ \A k \in 1..N :
              IF k \in Keys
              THEN \E item \in ItemSet :
                      item[1] = k /\ output.pages[k] = Composed(k, item[2])
              ELSE output.pages[k] = original.pages[k]
        /\ (replacements = <<>> => output.pages = original.pages)

\* three pages, page 3 given before page 1 in the dict: pages 1 and 3 are
\* composed from "A" and "B", page 2 is the original's
C1_Witness ==
    /\ op = "batch" /\ Done /\ N = 3
    /\ replacements = <<<<3, "B">>, <<1, "A">>>>
    /\ output.pages[1].content.doc = "A"
    /\ output.pages[2] = original.pages[2]
    /\ output.pages[3].content.doc = "B" /\ output.pages[3].content.idx = 1

\* C2: an output document written by replace_page_in_pdf or
\* batch_replace_pages has N pages and one written by insert_page has N + 1,
\* for every page_number, mapping and after_page.
C2_CountInvariant ==
    output.exists => Len(output.pages) = (IF op = "insert" THEN N + 1 ELSE N)

\* C3: insert_page with 0 <= after_page <= N, N >= 1, writes original pages
\* 1..after_page, then the one composed page, then original pages
\* after_page+1..N.
C3_InsertPosition ==
    (op = "insert" /\ Done /\ N >= 1 /\ after_page \in 0..N) =>
        output.pages =
            SubSeq(original.pages, 1, after_page)
                \o <<Composed(1, new_page_pdf_path)>>
                \o SubSeq(original.pages, after_page + 1, N)

\* the composed page between original pages 2 and 3
C3_Witness ==
    /\ op = "insert" /\ Done /\ N = 3 /\ after_page = 2
    /\ Len(output.pages) = 4
    /\ output.pages[2] = original.pages[2]
    /\ output.pages[3].content.doc = new_page_pdf_path
    /\ output.pages[4] = original.pages[3]

\* C4: replace_page_in_pdf with page_number outside 1..N raises and writes
\* no output.
C4_ReplaceOutOfRangeFails ==
    (op = "replace" /\ original.readable /\ ~InRange(page_number)) =>
        /\ ~output.exists
        /\ pc # "done"

\* C5: insert_page raises and writes no output when after_page < 0,
\* after_page > N or N = 0, and succeeds for every after_page in 0..N on an
\* original of at least one page.
C5_InsertOutOfRangeFails ==
    (op = "insert" /\ original.readable) =>
        /\ (after_page < 0 \/ after_page > N \/ N = 0) =>
              (~output.exists /\ pc # "done")
        /\ (after_page \in 0..N /\ N >= 1 /\ ~NoFirstPage(new_page_pdf_path)) =>
              pc # "raised"

\* C6: batch_replace_pages with a key outside 1..N raises and writes no output.
C6_BatchOutOfRangeKeyFails ==
    (op = "batch" /\ original.readable /\ \E k \in Keys : ~InRange(k)) =>
        /\ ~output.exists
        /\ pc # "done"

\* the output file is written at most once, and only once every page of the
\* walk is in the writer
WrittenOnceAfterTheWalk ==
    /\ writes <= 1
    /\ output.exists => (writes = 1 /\ Done /\ i = N /\ output.pages = writer)
    /\ Done => output.exists

\* a file the call reads cannot be read, or a replacement for a position in
\* range has no first page
UnreadableInput ==
    \/ op # "none" /\ ~original.readable
    \/ op = "replace" /\ InRange(page_number) /\ NoFirstPage(new_page_pdf_path)
    \/ op = "batch" /\ \E item \in ItemSet : InRange(item[1]) /\ NoFirstPage(item[2])
    \/ op = "insert" /\ NoFirstPage(new_page_pdf_path)

Aborts == ~output.exists /\ pc # "done"

\* C7 as stated: one write, after the walk; and the call aborts, writing
\* nothing, when the original or a replacement for a position in range cannot
\* be read or has no pages.
C7_AllOrNothing ==
    /\ WrittenOnceAfterTheWalk
    /\ (UnreadableInput \/ (op # "none" /\ original.readable /\ N = 0)) => Aborts

\* C7, amended: an original of no pages aborts insert_page only.
C7_AllOrNothingOnReadFailure ==
    /\ WrittenOnceAfterTheWalk
    /\ (UnreadableInput \/ (op = "insert" /\ original.readable /\ N = 0)) => Aborts

\* page 1 was substituted from "A", then the file for page 2 had no pages:
\* the call raised and nothing was written
C7_Witness ==
    /\ op = "batch" /\ pc = "raised" /\ error = "IndexError"
    /\ replacements = <<<<1, "A">>, <<2, "E">>>>
    /\ Len(writer) = 1 /\ writer[1].content.doc = "A"
    /\ ~output.exists /\ writes = 0

\* C10: the page insert_page inserts has the visual footprint of the
\* original's first page, wherever it is inserted.
C10_InsertedSizeFromFirstPage ==
    (op = "insert" /\ Done /\ N >= 1 /\ after_page \in 0..N) =>
        /\ output.pages[after_page + 1].content.doc = new_page_pdf_path
        /\ <<output.pages[after_page + 1].width, output.pages[after_page + 1].height>>
              = Footprint(original.pages[1])

\* inserted between a wide page 2 and a turned page 3, sized 3 x 4 after the
\* portrait page 1
C10_Witness ==
    /\ op = "insert" /\ Done /\ N = 3 /\ after_page = 2
    /\ original.pages[1] = Portrait("orig", 1)
    /\ original.pages[2] = Wide("orig", 2)
    /\ original.pages[3] = Turned("orig", 3)
    /\ output.pages[3].width = FromInt(3) /\ output.pages[3].height = FromInt(4)

====
